---- MODULE Spec2Model ----
(***************************************************************************)
(* The inventory pipeline of run_pipeline.py and the dashboard script of   *)
(* dashboard/app.py, as one state machine over a shared file system.       *)
(*                                                                         *)
(* The five stage functions (data_preprocessing.main, predict_expiry_class,*)
(* forecasting.main, risk_scoring.main, run_recommendation_pipeline) are   *)
(* imported by both scripts but their code is not part of the source tree  *)
(* at hand.  They are modelled from the specification's stage contract:    *)
(* "read CSV at fixed path -> deterministic transform -> write CSV at      *)
(* fixed path", a stage either returns (having written its file) or        *)
(* raises (having written nothing).                                        *)
(***************************************************************************)
EXTENDS Integers, Sequences, FiniteSets, TLC

\* Number of program invocations (CLI runs and dashboard renders) explored.
MaxRuns == 2

----------------------------------------------------------------------------
(* Paths *)

UploadedFilePath == "data/raw/uploaded_inventory.csv"
CliInputPath == "inventory.csv"
ProcessedPath == "processed_data.csv"
ForecastPath == "forecasts/product_level/all_products_forecast.csv"
RiskPath == "data/external/risk_scores.csv"
RecPath == "data/external/recommendations.csv"

InputPaths == {UploadedFilePath, CliInputPath}
OutputPaths == {ProcessedPath, ForecastPath, RiskPath, RecPath}
Paths == InputPaths \cup OutputPaths

----------------------------------------------------------------------------
(* Values *)

Absent == [kind |-> "absent"]      \* no file at a path
Unbound == [kind |-> "unbound"]     \* a Python name not yet assigned
NoUpload == [kind |-> "noupload"]    \* st.file_uploader returned None
Unparsable == [kind |-> "unparsable"]  \* an upload pd.read_csv rejects
NoRun == [kind |-> "norun"]

\* CSV texts a user may supply: the table they hold, whether the text is in
\* the form pandas itself writes, and the columns of the table that the
\* dashboard looks at in the uploaded frame.
\* risk_level is the set of values a Risk_Level column holds: "High",
\* "Medium", "Low", "Other" (any other label: Critical, high, ...), the emoji
\* "red", "orange", "green", or "NaN"; it is empty without such a column.
Texts ==
  { [table |-> 1, canonical |-> FALSE, cols |-> {"Category"}, risk_level |-> {}],
    [table |-> 2, canonical |-> TRUE, risk_level |-> {"High", "Other", "Low"},
       cols |-> {"Category", "Risk_Score", "Risk_Level"}],
    [table |-> 3, canonical |-> TRUE, risk_level |-> {"Other"},
       cols |-> {"Risk_Score", "Risk_Level"}] }

Uploads == Texts \cup {Unparsable, NoUpload}

\* pd.read_csv: the frame forgets how the text was written.
ReadCsv(text) == [table |-> text.table, cols |-> text.cols, risk_level |-> text.risk_level]

\* DataFrame.to_csv(index=False): always the canonical text.
ToCsv(df) ==
  [table |-> df.table, canonical |-> TRUE, cols |-> df.cols, risk_level |-> df.risk_level]

\* The dict of app.py:220 applied to one value: a key gives its emoji, any
\* other value (another label, another case, an emoji, NaN) gives NaN.
MapValue(v) ==
  CASE v = "High"   -> "red"
    [] v = "Medium" -> "orange"
    [] v = "Low"    -> "green"
    [] OTHER        -> "NaN"

\* df["Risk_Level"].map({"High": ..., "Medium": ..., "Low": ...}), value by value.
MapRiskLevel(df) == [df EXCEPT !.risk_level = {MapValue(v) : v \in @}]

----------------------------------------------------------------------------
(* Stages *)

\* A variant of the calls, as a slip in run_pipeline would give it.
CliStagesNoClassify == <<"preprocess", "forecast", "risk", "recommend">>

\* run_pipeline: the calls, in program order.
CliStages == <<"preprocess", "classify", "forecast", "risk", "recommend">>

\* app.py: the calls of the "Run Backend Pipeline" block, in program order.
DashStages == <<"preprocess", "forecast", "risk", "recommend">>

AllStages == {"preprocess", "classify", "forecast", "risk", "recommend"}

Stages(m) == IF m = "cli" THEN CliStages ELSE DashStages

\* What a stage call may raise: an exception of class Exception, or one that
\* is a BaseException only (SystemExit, KeyboardInterrupt, GeneratorExit).
ExcClasses == {"Exception", "BaseException"}

\* The status of a stage that raised an exception of class e.
StatusOf(e) == IF e = "Exception" THEN "failed" ELSE "exited"

\* Variants of the try block, as a slip in run_pipeline would give them.
CaughtNowhere(m, s, e) == FALSE
CaughtEverywhere(m, s, e) == m = "cli" /\ e = "Exception"

\* The try block around a stage call: only run_pipeline's forecast_main(),
\* and its handler is "except Exception".
Caught(m, s, e) == m = "cli" /\ s = "forecast" /\ e = "Exception"

\* An exception of class e raised by stage s leaves the caller.
Propagates(m, s, e) == ~Caught(m, s, e)

\* Lines printed and elements shown.
Printed(text) == [k |-> "print", v |-> text]
Skipped(s) == [k |-> "skipped", v |-> s]
Shown(element) == [k |-> "show", v |-> element]

\* The line run_pipeline prints before calling a stage.
StepMessage(s) == [k |-> "step", v |-> s]

\* Columns the dashboard reads from each stage's table.
AllCols(s) ==
  CASE s = "risk"      -> {"Risk_Level"}
    [] s = "forecast"  -> {"Date"}
    [] s = "recommend" -> {"Product_Name", "Stock_Quantity", "Risk_Level",
                           "Predicted_Action", "Predicted_Discount_Percent",
                           "Category"}
    [] OTHER           -> {}

\* What a stage's table may lack: nothing, or one of those columns.
MissingChoices(s) == {{}} \cup {{c} : c \in AllCols(s)}

\* The file a stage writes.
OutPath(s) ==
  CASE s \in {"preprocess", "classify"} -> ProcessedPath
    [] s = "forecast"                   -> ForecastPath
    [] s = "risk"                       -> RiskPath
    [] s = "recommend"                  -> RecPath

\* The file contents a stage reads; p is the path handed to preprocessing.
Reads(s, fs, p) ==
  CASE s = "preprocess" -> [in |-> fs[p]]
    [] s = "recommend"  -> [risk |-> fs[RiskPath], forecast |-> fs[ForecastPath]]
    [] OTHER            -> [in |-> fs[ProcessedPath]]

\* A stage cannot return when a file it reads is not there or is no CSV.
MustFail(s, read) ==
  IF s = "recommend"
  THEN read.risk = Absent \/ read.forecast = Absent
  ELSE read.in = Absent \/ read.in = Unparsable

\* The table a file holds rows of; 0 when there are none to take.
TableOf(content) == IF content \in {Absent, Unparsable} THEN 0 ELSE content.table

\* The contents a stage leaves in its file, as a function of what it read:
\* the whole table when it wrote all of it, a truncated one when it raised
\* part of the way through.
Output(s, read, res) ==
  IF s \in {"preprocess", "classify"}
  THEN [stage |-> "processed", table |-> TableOf(read.in),
        expiry |-> s = "classify", complete |-> res.wrote = "all"]
  ELSE [stage |-> s, src |-> read, cols |-> AllCols(s) \ res.missing,
        complete |-> res.wrote = "all"]

\* Contents left behind by a use of the program before the ones explored.
Prior(path) ==
  CASE path = ProcessedPath -> [stage |-> "processed", table |-> 0, expiry |-> TRUE, complete |-> TRUE]
    [] path = ForecastPath  -> [stage |-> "forecast", src |-> [in |-> Absent], cols |-> AllCols("forecast"), complete |-> TRUE]
    [] path = RiskPath      -> [stage |-> "risk", src |-> [in |-> Absent], cols |-> AllCols("risk"), complete |-> TRUE]
    [] path = RecPath       -> [stage |-> "recommend", src |-> [in |-> Absent], cols |-> AllCols("recommend"), complete |-> TRUE]

\* A stage raises: before it writes, with its file half written, or after
\* it wrote the whole table; prints says whether str() of the exception it
\* raises returns (an exception class may define a __str__ that raises);
\* the two are told apart for forecasting, the one stage whose exception a
\* caller ever formats.
Failure == [ok |-> FALSE, wrote |-> "nothing", missing |-> {}, prints |-> TRUE]
Failures(s) ==
  {[Failure EXCEPT !.wrote = w, !.prints = b] :
     w \in {"nothing", "partial", "all"},
     b \in IF s = "forecast" THEN BOOLEAN ELSE {TRUE}}

\* A stage writes its whole table and returns.
Success == [ok |-> TRUE, wrote |-> "all", missing |-> {}, prints |-> TRUE]

\* The forecaster finds a saved forecast and returns without writing.
Skip == [ok |-> TRUE, wrote |-> "nothing", missing |-> {}, prints |-> TRUE]

\* What a stage may do on an input: raise, or write its table; the table may
\* lack a column when lossy says the run explores incomplete tables.
Results(s, lossy) ==
  Failures(s) \cup {Success}
    \cup (IF lossy
          THEN {[Success EXCEPT !.missing = m] : m \in MissingChoices(s)}
          ELSE {})

\* The files after a stage did res on what it read.
FilesAfter(s, read, res, fs) ==
  IF res.wrote = "nothing" THEN fs
  ELSE [fs EXCEPT ![OutPath(s)] = Output(s, read, res)]

\* The invocation that last wrote each file, after a stage did res in run r.
WrittenAfter(s, res, wb, r) ==
  IF res.wrote = "nothing" THEN wb ELSE [wb EXCEPT ![OutPath(s)] = r]

----------------------------------------------------------------------------
VARIABLES
  files,      \* path -> contents, or Absent
  oracle,     \* what each stage does on each input it has met so far
  run,        \* number of invocations so far
  mode,       \* "idle", "cli" or "dash": the script now running
  pc,         \* position in that script
  idx,        \* index into Stages(mode) of the stage to call or running
  arg,        \* uploaded_file_path: the path handed to preprocessing
  upload,     \* uploaded_file of the render
  input,      \* contents at arg when the run began
  status,     \* stage -> "pending", "running", "returned", "failed", "exited"
  started,    \* the stages started in this run, in order
  out,        \* printed lines (cli) or elements shown (dash), in order
  raised,     \* the exception that left the script, or "none"
  writtenBy,  \* path -> the invocation that last wrote it (0: none explored)
  before,     \* the files when this invocation began
  prev,       \* the previous run_pipeline call or render: how it ended
  rec_df,     \* app.py's rec_df
  uploaded_df, \* app.py's uploaded_df
  lossy,      \* whether stage tables lacking a column are explored
  reuse       \* whether the forecaster keeps a saved forecast it finds

vars == <<files, oracle, run, mode, pc, idx, arg, upload, input, status,
          started, out, raised, writtenBy, before, prev, rec_df, uploaded_df,
          lossy, reuse>>

Ended == pc \in {"idle", "completed", "aborted", "usage", "rendered", "crashed"}

\* The output files an earlier use may have left behind.
PriorSets == {{}, {ForecastPath}, {RiskPath}, OutputPaths}

Start ==
  /\ \E left \in PriorSets, t \in Texts \cup {Absent} :
       files = [p \in Paths |->
                  IF p = CliInputPath THEN t
                  ELSE IF p \in left THEN Prior(p)
                  ELSE Absent]
  /\ oracle = {}
  /\ run = 0
  /\ mode = "idle"
  /\ pc = "idle"
  /\ idx = 1
  /\ arg = CliInputPath
  /\ upload = NoUpload
  /\ input = Absent
  /\ status = [s \in AllStages |-> "pending"]
  /\ started = <<>>
  /\ out = <<>>
  /\ raised = "none"
  /\ writtenBy = [p \in Paths |-> 0]
  /\ before = files
  /\ prev = NoRun
  /\ rec_df = Unbound
  /\ uploaded_df = Unbound
  /\ reuse \in BOOLEAN

\* The pipeline with every stage table complete.
Init == Start /\ lossy = FALSE

\* The same, with stage tables that may lack a column the dashboard reads,
\* written by a forecaster that overwrites.
InitLossy == Start /\ lossy = TRUE /\ ~reuse

\* How the invocation now ending is remembered by the next one.
Summary ==
  IF mode = "idle" \/ pc = "usage" THEN prev
  ELSE [mode |-> mode, input |-> input, arg |-> arg,
        completed |-> pc \in {"completed", "rendered"},
        files |-> [p \in OutputPaths |-> files[p]]]

Begin(m, p, u) ==
  /\ Ended
  /\ run < MaxRuns
  /\ run' = run + 1
  /\ mode' = m
  /\ arg' = p
  /\ upload' = u
  /\ input' = files[p]
  /\ idx' = 1
  /\ status' = [s \in AllStages |-> "pending"]
  /\ started' = <<>>
  /\ out' = <<>>
  /\ raised' = "none"
  /\ before' = files
  /\ prev' = Summary
  /\ rec_df' = Unbound
  /\ uploaded_df' = Unbound
  /\ UNCHANGED <<files, oracle, writtenBy, lossy, reuse>>

----------------------------------------------------------------------------
(* run_pipeline.py *)

\* python run_pipeline.py            (no argument)
CliUsage ==
  /\ Ended
  /\ run < MaxRuns
  /\ run' = run + 1
  /\ mode' = "cli"
  /\ pc' = "usage"
  /\ out' = <<Printed("Please provide the uploaded CSV path")>>
  /\ raised' = "none"
  /\ started' = <<>>
  /\ status' = [s \in AllStages |-> "pending"]
  /\ prev' = Summary
  /\ before' = files
  /\ UNCHANGED <<files, oracle, idx, arg, upload, input, writtenBy, rec_df, uploaded_df,
                 lossy, reuse>>

\* python run_pipeline.py <path>
CliBegin ==
  \E p \in InputPaths :
    /\ Begin("cli", p, NoUpload)
    /\ pc' = "call"

\* The print before a stage, and the call.
StageStart ==
  /\ pc = "call"
  /\ idx <= Len(Stages(mode))
  /\ LET s == Stages(mode)[idx] IN
       /\ status' = [status EXCEPT ![s] = "running"]
       /\ started' = Append(started, s)
       /\ out' = IF mode = "cli" THEN Append(out, StepMessage(s)) ELSE out
  /\ pc' = "running"
  /\ UNCHANGED <<files, oracle, run, mode, idx, arg, upload, input, raised,
                 writtenBy, before, prev, rec_df, uploaded_df,
                 lossy, reuse>>

\* What the running stage does on what it reads: decided by its input alone.
Known(s, read) == {e \in oracle : e.stage = s /\ e.read = read}

\* The forecaster that keeps saved forecasts has one on disk.
UsesSaved(s, fs, keep) == s = "forecast" /\ keep /\ fs[ForecastPath] # Absent

\* A stage that is not a function of what it reads: it may do on an input
\* something else than it did before.
BehavioursForgetful(s, read) ==
  IF UsesSaved(s, files, reuse) THEN {Skip}
  ELSE IF MustFail(s, read) THEN Failures(s)
  ELSE Results(s, lossy)

\* What the running stage may do: keep the saved forecast; what it did on
\* this input before; or, on an input new to it, any of its outcomes.
Behaviours(s, read) ==
  IF UsesSaved(s, files, reuse) THEN {Skip}
  ELSE IF Known(s, read) # {} THEN {e.res : e \in Known(s, read)}
  ELSE IF MustFail(s, read) THEN Failures(s)
  ELSE Results(s, lossy)

Learn(s, read, res) ==
  IF res = Skip THEN oracle
  ELSE oracle \cup {[stage |-> s, read |-> read, res |-> res]}

\* How the running stage may raise an exception of class e: an Exception as
\* it does on this input; an exit or interrupt at any time, before or while
\* it writes.
Raises(s, read, e) ==
  IF e = "Exception" THEN {res \in Behaviours(s, read) : ~res.ok} ELSE Failures(s)

LearnRaise(s, read, e, res) ==
  IF e = "Exception" THEN Learn(s, read, res) ELSE oracle

\* What a stage that ran to its end, returning or raising, leaves behind.
StageEffect(s, read, res) ==
  /\ files' = FilesAfter(s, read, res, files)
  /\ writtenBy' = WrittenAfter(s, res, writtenBy, run)

\* After stage idx is over, the script the caller continues with.
Continue ==
  /\ idx' = idx + 1
  /\ pc' = IF idx < Len(Stages(mode)) THEN "call"
           ELSE IF mode = "cli" THEN "finish" ELSE "risk_levels"

\* The running stage returns.
StageReturn ==
  /\ pc = "running"
  /\ LET s == Stages(mode)[idx]
         read == Reads(s, files, arg)
     IN \E res \in Behaviours(s, read) :
          /\ res.ok
          /\ oracle' = Learn(s, read, res)
          /\ StageEffect(s, read, res)
          /\ status' = [status EXCEPT ![s] = "returned"]
  /\ Continue
  /\ UNCHANGED <<run, mode, arg, upload, input, started, out, raised, before,
                 prev, rec_df, uploaded_df, lossy, reuse>>

\* The running stage raises inside a try block and the handler formats the
\* exception into the line it prints: logged, and the run goes on.
StageFailCaught ==
  /\ pc = "running"
  /\ LET s == Stages(mode)[idx]
         read == Reads(s, files, arg)
     IN \E e \in ExcClasses :
          /\ Caught(mode, s, e)
          /\ \E res \in Raises(s, read, e) :
               /\ res.prints
               /\ oracle' = LearnRaise(s, read, e, res)
               /\ StageEffect(s, read, res)
          /\ status' = [status EXCEPT ![s] = StatusOf(e)]
          /\ out' = Append(out, Skipped(s))
  /\ Continue
  /\ UNCHANGED <<run, mode, arg, upload, input, started, raised, before,
                 prev, rec_df, uploaded_df, lossy, reuse>>

\* The running stage raises inside a try block and formatting the exception
\* in the handler raises: nothing is printed, and the new exception leaves
\* the script from the handler.
StageFailHandlerRaise ==
  /\ pc = "running"
  /\ LET s == Stages(mode)[idx]
         read == Reads(s, files, arg)
     IN \E e \in ExcClasses :
          /\ Caught(mode, s, e)
          /\ \E res \in Raises(s, read, e) :
               /\ ~res.prints
               /\ oracle' = LearnRaise(s, read, e, res)
               /\ StageEffect(s, read, res)
          /\ status' = [status EXCEPT ![s] = StatusOf(e)]
          /\ raised' = "handler"
  /\ pc' = IF mode = "cli" THEN "aborted" ELSE "crashed"
  /\ UNCHANGED <<run, mode, idx, arg, upload, input, started, out, before,
                 prev, rec_df, uploaded_df, lossy, reuse>>

\* The running stage raises and nothing catches it: the script ends there.
StageRaise ==
  /\ pc = "running"
  /\ LET s == Stages(mode)[idx]
         read == Reads(s, files, arg)
     IN \E e \in ExcClasses :
          /\ Propagates(mode, s, e)
          /\ \E res \in Raises(s, read, e) :
               /\ oracle' = LearnRaise(s, read, e, res)
               /\ StageEffect(s, read, res)
          /\ status' = [status EXCEPT ![s] = StatusOf(e)]
          /\ raised' = s
  /\ pc' = IF mode = "cli" THEN "aborted" ELSE "crashed"
  /\ UNCHANGED <<run, mode, idx, arg, upload, input, started, out, before,
                 prev, rec_df, uploaded_df, lossy, reuse>>

\* The last print of run_pipeline.
CliComplete ==
  /\ mode = "cli"
  /\ pc = "finish"
  /\ out' = Append(out, Printed("Pipeline completed successfully"))
  /\ pc' = "completed"
  /\ UNCHANGED <<files, oracle, run, mode, idx, arg, upload, input, status,
                 started, raised, writtenBy, before, prev, rec_df, uploaded_df,
                 lossy, reuse>>

----------------------------------------------------------------------------
(* dashboard/app.py *)

\* A variant, as a slip in app.py would give it.
DashPreprocessArgOther == CliInputPath

\* The path app.py hands to data_preprocessing_main.
DashPreprocessArg == UploadedFilePath

\* One run of the script: Streamlit re-runs it on every interaction.
DashBegin ==
  \E u \in Uploads :
    /\ Begin("dash", DashPreprocessArg, u)
    /\ pc' = IF u = NoUpload THEN "no_upload" ELSE "ingest"

\* else: st.info(...)
DashNoUpload ==
  /\ mode = "dash"
  /\ pc = "no_upload"
  /\ out' = Append(out, Shown("info:Please upload a CSV file"))
  /\ pc' = "rendered"
  /\ UNCHANGED <<files, oracle, run, mode, idx, arg, upload, input, status,
                 started, raised, writtenBy, before, prev, rec_df, uploaded_df,
                 lossy, reuse>>

\* st.success, pd.read_csv(uploaded_file), os.makedirs, uploaded_df.to_csv.
DashIngest ==
  /\ mode = "dash"
  /\ pc = "ingest"
  /\ out' = Append(out, Shown("success:File uploaded"))
  /\ IF upload = Unparsable
     THEN /\ raised' = "ParserError"
          /\ pc' = "crashed"
          /\ UNCHANGED <<files, writtenBy, input, uploaded_df>>
     ELSE /\ uploaded_df' = ReadCsv(upload)
          /\ files' = [files EXCEPT ![UploadedFilePath] = ToCsv(uploaded_df')]
          /\ writtenBy' = [writtenBy EXCEPT ![UploadedFilePath] = run]
          /\ input' = files'[arg]
          /\ pc' = "call"
          /\ UNCHANGED raised
  /\ UNCHANGED <<oracle, run, mode, idx, arg, upload, status, started, before,
                 prev, rec_df, lossy, reuse>>

Has(df, cols) == cols \subseteq df.cols

\* A section of the script: what it shows, then the exception it raises or
\* the section that follows.
Section(shown, exc, next) ==
  /\ out' = out \o [i \in 1..Len(shown) |-> Shown(shown[i])]
  /\ IF exc = "none"
     THEN pc' = next /\ UNCHANGED raised
     ELSE pc' = "crashed" /\ raised' = exc

\* The recommendations file is on a file system other programs share; the
\* script itself tests os.path.exists(rec_file) twice after the pipeline,
\* and reads the file in a call of its own after each test.
RecFileRemoved ==
  /\ mode = "dash"
  /\ pc \in {"recommendations", "rec_read", "enhanced", "enh_read"}
  /\ files[RecPath] # Absent
  /\ files' = [files EXCEPT ![RecPath] = Absent]
  /\ UNCHANGED <<oracle, run, mode, pc, idx, arg, upload, input, status,
                 started, out, raised, writtenBy, before, prev, rec_df, uploaded_df,
                 lossy, reuse>>

\* "Risk Levels": risk_df["Risk_Level"].value_counts()
DashRiskLevels ==
  /\ mode = "dash"
  /\ pc = "risk_levels"
  /\ LET risk_df == files[RiskPath] IN
       IF risk_df = Absent
       THEN Section(<<"subheader:Risk Levels">>, "FileNotFoundError", "-")
       ELSE IF ~Has(risk_df, {"Risk_Level"})
       THEN Section(<<"subheader:Risk Levels">>, "KeyError", "-")
       ELSE Section(<<"subheader:Risk Levels", "bar_chart:Risk_Level">>,
                    "none", "recommendations")
  /\ UNCHANGED <<files, oracle, run, mode, idx, arg, upload, input, status,
                 started, writtenBy, before, prev, rec_df, uploaded_df,
                 lossy, reuse>>

RecHead == <<"dataframe:rec_df", "download_button">>

\* "Recommendations": the subheader and os.path.exists(rec_file)
DashRecommendations ==
  /\ mode = "dash"
  /\ pc = "recommendations"
  /\ IF files[RecPath] # Absent
     THEN Section(<<"subheader:Recommendations">>, "none", "rec_read")
     ELSE Section(<<"subheader:Recommendations",
                    "warning:Recommendations file not found">>, "none", "enhanced")
  /\ UNCHANGED <<files, oracle, run, mode, idx, arg, upload, input, status,
                 started, writtenBy, before, prev, rec_df, uploaded_df,
                 lossy, reuse>>

\* pd.read_csv(rec_file) and "Insights from Recommendations"
DashRecRead ==
  /\ mode = "dash"
  /\ pc = "rec_read"
  /\ IF files[RecPath] # Absent
     THEN LET df == files[RecPath] IN
          /\ rec_df' = df
          /\ IF ~Has(df, {"Product_Name", "Stock_Quantity"})
             THEN Section(RecHead, "KeyError", "-")
             ELSE IF ~Has(df, {"Risk_Level", "Predicted_Action"})
             THEN Section(RecHead \o <<"bar_chart:top_demand_products">>, "KeyError", "-")
             ELSE Section(RecHead \o <<"bar_chart:top_demand_products",
                                       "dataframe:action_risk_distribution">>
                            \o (IF Has(df, {"Predicted_Discount_Percent", "Category"})
                                THEN <<"bar_chart:avg_discount_category">>
                                ELSE <<>>),
                          "none", "enhanced")
     ELSE /\ Section(<<>>, "FileNotFoundError", "-")
          /\ UNCHANGED rec_df
  /\ UNCHANGED <<files, oracle, run, mode, idx, arg, upload, input, status,
                 started, writtenBy, before, prev, uploaded_df,
                 lossy, reuse>>

\* "Enhanced Insights and Filters": the subheader and os.path.exists(rec_file)
DashEnhanced ==
  /\ mode = "dash"
  /\ pc = "enhanced"
  /\ Section(<<"subheader:Enhanced Insights and Filters">>, "none",
             IF files[RecPath] # Absent THEN "enh_read" ELSE "key_metrics")
  /\ UNCHANGED <<files, oracle, run, mode, idx, arg, upload, input, status,
                 started, writtenBy, before, prev, rec_df, uploaded_df,
                 lossy, reuse>>

\* pd.read_csv(rec_file), the filters and "Enhanced Visualizations"
DashEnhRead ==
  /\ mode = "dash"
  /\ pc = "enh_read"
  /\ IF files[RecPath] # Absent
     THEN LET df == files[RecPath] IN
          /\ rec_df' = df
          /\ IF ~Has(df, {"Risk_Level"})
             THEN Section(<<>>, "KeyError", "-")
             ELSE IF ~Has(df, {"Predicted_Action"})
             THEN Section(<<"multiselect:Risk Levels">>, "KeyError", "-")
             ELSE IF ~Has(df, {"Stock_Quantity"})
             THEN Section(<<"multiselect:Risk Levels", "multiselect:Actions",
                                       "dataframe:filtered_df">>, "KeyError", "-")
             ELSE IF ~Has(df, {"Product_Name"})
             THEN Section(<<"multiselect:Risk Levels", "multiselect:Actions",
                                       "dataframe:filtered_df", "bar_chart:stock_by_risk">>
                            \o (IF Has(df, {"Predicted_Discount_Percent"})
                                THEN <<"bar_chart:avg_discount_risk">> ELSE <<>>),
                          "KeyError", "-")
             ELSE Section(<<"multiselect:Risk Levels", "multiselect:Actions",
                                       "dataframe:filtered_df", "bar_chart:stock_by_risk">>
                            \o (IF Has(df, {"Predicted_Discount_Percent"})
                                THEN <<"bar_chart:avg_discount_risk">> ELSE <<>>)
                            \o <<"dataframe:top_products", "pie:Risk Level Distribution",
                                 "line:Stock Quantity by Risk Level">>,
                          "none", "key_metrics")
     ELSE /\ Section(<<>>, "FileNotFoundError", "-")
          /\ UNCHANGED rec_df
  /\ UNCHANGED <<files, oracle, run, mode, idx, arg, upload, input, status,
                 started, writtenBy, before, prev, uploaded_df,
                 lossy, reuse>>

\* "Key Metrics" and "Predictive Insights": nothing here reads a file; a
\* Risk_Level column of uploaded_df is rewritten in place before the frame
\* is shown, and stays rewritten for the sections that follow.
DashKeyMetrics ==
  /\ mode = "dash"
  /\ pc = "key_metrics"
  /\ uploaded_df' = IF Has(uploaded_df, {"Risk_Level"})
                    THEN MapRiskLevel(uploaded_df)
                    ELSE uploaded_df
  /\ Section(<<"h2:Key Metrics", "metric:Total Products", "metric:Expired Items",
               "metric:Near-Expiry Items", "h2:Predictive Insights",
               "subheader:Expiry Prediction Table",
               "dataframe:uploaded_df">>, "none", "forecast_section")
  /\ UNCHANGED <<files, oracle, run, mode, idx, arg, upload, input, status,
                 started, writtenBy, before, prev, rec_df, lossy, reuse>>

\* "Forecasting & Trend Analysis"
DashForecast ==
  /\ mode = "dash"
  /\ pc = "forecast_section"
  /\ LET forecast_df == files[ForecastPath] IN
       IF forecast_df = Absent
       THEN Section(<<"h2:Forecasting & Trend Analysis">>, "FileNotFoundError", "-")
       ELSE IF Has(forecast_df, {"Date"})
       THEN Section(<<"h2:Forecasting & Trend Analysis", "write:forecast columns",
                      "line_chart:forecast">>, "none", "risk_section")
       ELSE Section(<<"h2:Forecasting & Trend Analysis", "write:forecast columns",
                      "error:Date column is missing">>, "none", "risk_section")
  /\ UNCHANGED <<files, oracle, run, mode, idx, arg, upload, input, status,
                 started, writtenBy, before, prev, rec_df, uploaded_df,
                 lossy, reuse>>

\* "Risk Scoring Insights": px.box(uploaded_df, x="Category", y="Risk_Score",
\* color="Risk_Level") rejects a column name the frame does not have.
DashRiskScoring ==
  /\ mode = "dash"
  /\ pc = "risk_section"
  /\ IF Has(uploaded_df, {"Risk_Score"})
     THEN IF Has(uploaded_df, {"Category", "Risk_Level"})
          THEN Section(<<"h2:Risk Scoring Insights", "write:uploaded columns",
                         "box:Risk_Score">>, "none", "optimization")
          ELSE Section(<<"h2:Risk Scoring Insights", "write:uploaded columns">>,
                       "ValueError", "-")
     ELSE Section(<<"h2:Risk Scoring Insights", "write:uploaded columns",
                    "error:Risk_Score column is missing">>, "none", "optimization")
  /\ UNCHANGED <<files, oracle, run, mode, idx, arg, upload, input, status,
                 started, writtenBy, before, prev, rec_df, uploaded_df,
                 lossy, reuse>>

\* "Optimization & Recommendations": reads rec_df, bound or not.
DashOptimization ==
  /\ mode = "dash"
  /\ pc = "optimization"
  /\ IF rec_df = Unbound
     THEN Section(<<"h2:Optimization & Recommendations">>, "NameError", "-")
     ELSE IF Has(rec_df, {"Product_Name", "Predicted_Action"})
     THEN Section(<<"h2:Optimization & Recommendations", "dataframe:recommendations">>,
                  "none", "footer")
     ELSE Section(<<"h2:Optimization & Recommendations">>, "KeyError", "-")
  /\ UNCHANGED <<files, oracle, run, mode, idx, arg, upload, input, status,
                 started, writtenBy, before, prev, rec_df, uploaded_df,
                 lossy, reuse>>

DashFooter ==
  /\ mode = "dash"
  /\ pc = "footer"
  /\ Section(<<"footer">>, "none", "rendered")
  /\ UNCHANGED <<files, oracle, run, mode, idx, arg, upload, input, status,
                 started, writtenBy, before, prev, rec_df, uploaded_df,
                 lossy, reuse>>

Next ==
  \/ CliUsage
  \/ CliBegin
  \/ StageStart
  \/ StageReturn
  \/ StageFailCaught
  \/ StageFailHandlerRaise
  \/ StageRaise
  \/ CliComplete
  \/ DashBegin
  \/ DashNoUpload
  \/ DashIngest
  \/ RecFileRemoved
  \/ DashRiskLevels
  \/ DashRecommendations
  \/ DashRecRead
  \/ DashEnhanced
  \/ DashEnhRead
  \/ DashKeyMetrics
  \/ DashForecast
  \/ DashRiskScoring
  \/ DashOptimization
  \/ DashFooter

Spec == Init /\ [][Next]_vars

SpecLossy == InitLossy /\ [][Next]_vars

----------------------------------------------------------------------------
(* Properties *)

Range(seq) == {seq[i] : i \in 1..Len(seq)}

IsPrefix(a, b) == Len(a) <= Len(b) /\ \A i \in 1..Len(a) : a[i] = b[i]

\* The order the five stages are to run in.
FixedOrder == <<"preprocess", "classify", "forecast", "risk", "recommend">>

\* A stage is over: it returned, or it is forecasting and it failed.
Finished(s) == status[s] = "returned" \/ (s = "forecast" /\ status[s] = "failed")

\* A stage raised, whatever the class of the exception.
Raised(s) == status[s] \in {"failed", "exited"}

InRunPipeline == mode = "cli" /\ pc # "usage"

CompletionPrinted == Printed("Pipeline completed successfully") \in Range(out)

\* The dashboard's pipeline block is over and the script is displaying.
DashPipelineOver == mode = "dash" /\ idx > Len(DashStages)

\* C1: in run_pipeline the stages start in the fixed order preprocessing,
\* expiry classification, forecasting, risk scoring, recommendation; none
\* starts before every earlier one is over (returned, or for forecasting
\* returned or failed); each starts at most once; and a run in which no stage
\* fails executes all five.
C1_StagesInFixedOrder ==
  InRunPipeline =>
    /\ IsPrefix(started, FixedOrder)
    /\ \A i \in 1..Len(started) : \A j \in 1..(i - 1) : Finished(started[j])
    /\ \A s \in AllStages : status[s] # "pending" <=> s \in Range(started)
    /\ (pc = "completed" /\ \A s \in AllStages : ~Raised(s))
         => started = FixedOrder /\ \A s \in AllStages : status[s] = "returned"

C1_Witness ==
  /\ mode = "cli"
  /\ pc = "completed"
  /\ \A s \in AllStages : status[s] = "returned"

\* C2 as stated: in run_pipeline an exception raised by forecasting is caught
\* and logged and the run goes on to risk scoring and recommendation; the
\* exception never leaves run_pipeline.
C2_AnyForecastExceptionContained ==
  (mode = "cli" /\ Raised("forecast")) =>
    /\ Skipped("forecast") \in Range(out)
    /\ raised # "forecast"
    /\ pc \in {"completed", "aborted"} => status["risk"] # "pending"

\* C2 amended: in run_pipeline an exception of class Exception raised by
\* forecasting is caught, and unless formatting it for the log line raises,
\* it is logged and the run goes on: risk scoring is started next,
\* recommendation after it unless risk scoring itself raised, and the
\* exception never leaves run_pipeline.  When formatting it raises, that
\* exception leaves run_pipeline from the handler, with no skip line and no
\* later stage.  An exception that is a BaseException only (SystemExit,
\* KeyboardInterrupt, GeneratorExit) is not caught: it leaves run_pipeline at
\* the forecasting call, with no skip line and no later stage.
C2_ForecastFailureContained ==
  mode = "cli" =>
    /\ status["forecast"] = "failed" =>
         /\ status["preprocess"] = "returned" /\ status["classify"] = "returned"
         /\ raised # "forecast"
    /\ (status["forecast"] = "failed" /\ raised # "handler") =>
         /\ Skipped("forecast") \in Range(out)
         /\ pc \in {"completed", "aborted"} => status["risk"] # "pending"
         /\ (pc \in {"completed", "aborted"} /\ status["risk"] = "returned")
              => status["recommend"] # "pending"
         /\ pc = "completed"
              => status["risk"] = "returned" /\ status["recommend"] = "returned"
    /\ (status["forecast"] = "failed" /\ raised = "handler") =>
         /\ pc = "aborted"
         /\ Skipped("forecast") \notin Range(out)
         /\ status["risk"] = "pending" /\ status["recommend"] = "pending"
    /\ status["forecast"] = "exited" =>
         /\ pc = "aborted"
         /\ raised = "forecast"
         /\ Skipped("forecast") \notin Range(out)
         /\ status["risk"] = "pending" /\ status["recommend"] = "pending"

\* A run whose forecasting failed and that printed the completion message.
C2_Witness ==
  /\ mode = "cli"
  /\ status["forecast"] = "failed"
  /\ status["risk"] = "returned"
  /\ status["recommend"] = "returned"
  /\ CompletionPrinted

\* C3: in run_pipeline an exception (of either class) raised by preprocessing, expiry classification,
\* risk scoring or recommendation aborts the run there: that stage is the
\* last one started, the exception leaves run_pipeline, and the completion
\* message is not printed; so the message is printed only when all four
\* returned.
C3_OtherFailuresAbort ==
  mode = "cli" =>
    /\ \A s \in AllStages \ {"forecast"} :
         Raised(s) =>
           /\ pc = "aborted"
           /\ raised = s
           /\ started[Len(started)] = s
           /\ ~CompletionPrinted
    /\ CompletionPrinted
         => \A s \in AllStages \ {"forecast"} : status[s] = "returned"

\* Risk scoring raised after forecasting returned: the run is aborted.
C3_Witness ==
  /\ mode = "cli"
  /\ status["forecast"] = "returned"
  /\ status["risk"] = "failed"
  /\ status["recommend"] = "pending"
  /\ pc = "aborted"

\* C4: a render with an uploaded file has run, before it displays anything
\* of the results, the same five stages in the same order as run_pipeline.
C4_DashRunsTheFiveStages ==
  DashPipelineOver => started = CliStages

\* C5: in the dashboard's pipeline a failure of forecasting is contained as
\* in the CLI: it does not leave the script, and risk scoring and
\* recommendation are still executed in that render.
C5_DashContainsForecastFailure ==
  (mode = "dash" /\ status["forecast"] = "failed") =>
    /\ raised # "forecast"
    /\ Ended => status["risk"] # "pending"

\* What the tables hold is computed from the input of this run alone.
ProcessedFromInput ==
  /\ files[ProcessedPath] # Absent
  /\ files[ProcessedPath].table = ReadCsv(input).table
RiskFromProcessed ==
  /\ files[RiskPath] # Absent
  /\ files[RiskPath].src = [in |-> files[ProcessedPath]]
ForecastFromProcessed ==
  /\ files[ForecastPath] # Absent
  /\ files[ForecastPath].src = [in |-> files[ProcessedPath]]
RecFromRiskAndForecast ==
  /\ files[RecPath] # Absent
  /\ files[RecPath].src = [risk |-> files[RiskPath], forecast |-> files[ForecastPath]]

\* C6: whenever a run reaches the completion message, every persisted table
\* (processed, forecast, risk, recommendations) was written by that run, in
\* full, and computed from that run's input.
C6_EveryTableRecomputed ==
  (mode = "cli" /\ pc = "completed") =>
    /\ \A p \in OutputPaths : writtenBy[p] = run
    /\ \A p \in OutputPaths : files[p] # Absent /\ files[p].complete
    /\ ProcessedFromInput
    /\ ForecastFromProcessed
    /\ RiskFromProcessed
    /\ RecFromRiskAndForecast

\* This run_pipeline call and the one before it both completed, on the same
\* input, with no other run or render between them.
TwoCompletedRunsSameInput ==
  /\ mode = "cli"
  /\ pc = "completed"
  /\ prev # NoRun
  /\ prev.mode = "cli"
  /\ prev.completed
  /\ prev.input = input

\* C7: two consecutive completed runs of run_pipeline on the same input
\* leave the same contents in the processed, forecast, risk and
\* recommendation files, whatever the files held before the first.
C7_RerunIdempotent ==
  TwoCompletedRunsSameInput => \A p \in OutputPaths : files[p] = prev.files[p]

\* Two such runs in which forecasting failed over files of an earlier use.
C7_Witness ==
  /\ TwoCompletedRunsSameInput
  /\ status["forecast"] = "failed"
  /\ files[ForecastPath] = Prior(ForecastPath)

\* A column the render reads is absent from the table it is read from.
SomeColumnMissing ==
  \/ files[RiskPath] # Absent /\ ~Has(files[RiskPath], AllCols("risk"))
  \/ files[ForecastPath] # Absent /\ ~Has(files[ForecastPath], AllCols("forecast"))
  \/ files[RecPath] # Absent /\ ~Has(files[RecPath], AllCols("recommend"))
  \/ ~Has(uploaded_df, {"Risk_Level", "Category", "Risk_Score"})

\* C8: a render in which a column it reads is absent shows a message or skips
\* the section, and reaches the footer without raising.
C8_MissingColumnsOnlyWarn ==
  (DashPipelineOver /\ SomeColumnMissing /\ Ended) =>
    \/ pc = "rendered" /\ Shown("footer") \in Range(out)
    \/ raised \in {"NameError", "FileNotFoundError"}

\* C9: in a render with an uploaded file the upload is written to
\* data/raw/uploaded_inventory.csv before any stage starts and preprocessing
\* is handed exactly that path; in a render without one nothing is written
\* and no stage is started.
C9_IngestionPrecedesPipeline ==
  mode = "dash" =>
    /\ started # <<>> =>
         /\ upload \in Texts
         /\ arg = "data/raw/uploaded_inventory.csv"
         /\ writtenBy["data/raw/uploaded_inventory.csv"] = run
         /\ files["data/raw/uploaded_inventory.csv"] = ToCsv(ReadCsv(upload))
         /\ input = ToCsv(ReadCsv(upload))
    /\ upload = NoUpload =>
         /\ started = <<>>
         /\ files = before
         /\ \A p \in Paths : writtenBy[p] # run

\* Preprocessing has returned in a render whose upload was rewritten by pandas.
C9_Witness ==
  /\ mode = "dash"
  /\ status["preprocess"] = "returned"
  /\ upload \in Texts
  /\ ~upload.canonical
  /\ files[UploadedFilePath].canonical

\* C10: a render that found no recommendations file reads no unassigned
\* variable: it reaches the last section with rec_df assigned and does not
\* end in a NameError.
C10_NoRecFileRenderCompletes ==
  (mode = "dash" /\ Shown("warning:Recommendations file not found") \in Range(out)) =>
    /\ raised # "NameError"
    /\ pc = "optimization" => rec_df # Unbound
====
